---- MODULE Spec2Model ----
(***************************************************************************)
(* Church attendance: the attendance view model of the browser client      *)
(* (src/src/App.tsx, and the authenticated variant src/unnamed/part_002)   *)
(* the spreadsheet adapter of the cloud functions                          *)
(* (src/unnamed/part_003), and the whitelist of authorized users with its  *)
(* cache (src/src/components/UserManagement.tsx).                          *)
(*                                                                         *)
(* React state is one variable per useState cell.  A handler is one        *)
(* action: the state updates it queues are applied together.  An async    *)
(* function is two actions, the part before its await (the request goes   *)
(* in flight) and the part after it (the response is handled).            *)
(***************************************************************************)
EXTENDS Integers, Sequences, FiniteSets, TLC

VARIABLES
    attendanceRecords,   \* the per-date view: sequence of [name, present]
    fullAttendanceData,  \* the matrix: sequence of [name, attendance]
    availableDates,      \* DateList
    selectedDate,        \* current date, "" when none
    loading, saving,     \* BOOLEAN
    error,               \* load error message, NULL when none
    saveError,           \* save error message, NULL when none
    saveSuccess,         \* BOOLEAN
    authRequired,        \* BOOLEAN, set by a 403 of the data endpoint
    mounted,             \* the mount effect has run
    crashed,             \* a render threw: the component tree is unmounted
    user,                \* part_002: email of the signed-in user, NULL when none
    isAuthorized,        \* part_002: BOOLEAN
    signIns,             \* part_002: number of sign-ins so far
    fetchInFlight,       \* number of GETs of the data endpoint in flight
    saveInFlight,        \* sequence of update POSTs in flight
    sheet,               \* the backing table: sequence of rows (sequences of cells)
    store,               \* Firestore authorized_users: sequence of documents by id,
                         \* NULL where a document was deleted
    cachedAuthorizedEmails, \* module variable of auth-config: sequence of emails
    lastFetchTime,       \* module variable of auth-config: minutes, 0 when invalidated
    now,                 \* Date.now(), in minutes
    calls,               \* calls of the auth-config functions that await Firestore
    callsStarted,        \* number of such calls the session has made
    last                 \* history: the handler that acted last, with its inputs

vars == <<attendanceRecords, fullAttendanceData, availableDates, selectedDate,
          loading, saving, error, saveError, saveSuccess, authRequired,
          mounted, crashed, user, isAuthorized, signIns, fetchInFlight, saveInFlight,
          sheet, store, cachedAuthorizedEmails, lastFetchTime, now, calls, callsStarted,
          last>>

clientData == <<attendanceRecords, fullAttendanceData, availableDates, selectedDate>>

authState == <<user, isAuthorized, signIns>>

whitelist == <<store, cachedAuthorizedEmails, lastFetchTime, now, calls, callsStarted>>

----------------------------------------------------------------------------
(* Bounds and input sets *)

MaxPeople == 2      \* longest roster of a response
MaxInFlight == 2    \* requests of one kind the network holds at once
MaxSignIns == 2     \* sign-ins of one session

Names == <<"A", "B", "C">>
Dates == {"d1", "d2"}

NULL == "null"
UNDEFINED == <<"undefined">>

Range(s) == {s[i] : i \in 1..Len(s)}

Reverse(s) == [i \in 1..Len(s) |-> s[Len(s) + 1 - i]]

SeqsUpTo(S, n) == UNION {[1..k -> S] : k \in 0..n}

\* Rosters: the first n names, in sheet order or reversed.
Rosters ==
    UNION {{SubSeq(Names, 1, n), Reverse(SubSeq(Names, 1, n))} :
           n \in 0..(IF MaxPeople < Len(Names) THEN MaxPeople ELSE Len(Names))}

\* DateLists: the sequences of distinct dates.
DateLists == {dl \in SeqsUpTo(Dates, Cardinality(Dates)) :
                 \A i, j \in 1..Len(dl) : i # j => dl[i] # dl[j]}

\* The attendance mappings of a response: the data endpoint gives every person
\* one value for every date of the response.
Fills(ds) == {[d \in ds |-> FALSE], [d \in ds |-> TRUE]}

\* Bodies {dates, attendanceData} of a 200 answer of the data endpoint.
Bodies ==
    UNION {{[dates |-> dl,
             attendanceData |-> [i \in 1..Len(r) |-> [name |-> r[i], attendance |-> f]]] :
                r \in Rosters, f \in Fills(Range(dl))} :
           dl \in DateLists}

\* What a GET of the data endpoint can answer, as the client sees it.
\* A failure is a rejected fetch, a non-2xx status, or a 2xx answer whose
\* body is null or lacks its dates field.
FetchFailures ==
    {[kind |-> "neterr"], [kind |-> "http", status |-> 403],
     [kind |-> "http", status |-> 500], [kind |-> "null"]}
    \cup {[kind |-> "noDates", attendanceData |-> b.attendanceData] :
             b \in {x \in Bodies : x.dates = <<>>}}

\* const CACHE_DURATION = 1000 * 60 * 10, in minutes
CACHE_DURATION == 10

\* The whitelist module before its first call, with an empty collection.
WhitelistIdle ==
    /\ store = <<>>
    /\ cachedAuthorizedEmails = <<>>
    /\ lastFetchTime = 0
    /\ now = CACHE_DURATION
    /\ calls = <<>>
    /\ callsStarted = 0

----------------------------------------------------------------------------
(* src/src/App.tsx *)

\* item.attendance[date] || false
Present(item, date) ==
    IF date \in DOMAIN item.attendance THEN item.attendance[date] ELSE FALSE

\* Mutant: the view is built for the date of the last render, not the one given.
updateAttendanceRecordsForDate_stale(date, data) ==
    [i \in 1..Len(data) |->
        [name |-> data[i].name, present |-> Present(data[i], selectedDate)]]

updateAttendanceRecordsForDate(date, data) ==
    [i \in 1..Len(data) |-> [name |-> data[i].name, present |-> Present(data[i], date)]]

\* obj[key] = value on a JS object
SetKey(f, k, v) == [x \in DOMAIN f \cup {k} |-> IF x = k THEN v ELSE f[x]]

\* History: the edit that a run of date changes follows, index 0 when none.
NoEdit == [date |-> "", index |-> 0, checked |-> FALSE]

EditBefore ==
    IF last.op = "toggle"
      THEN [date |-> selectedDate, index |-> last.index, checked |-> last.checked]
    ELSE IF last.op = "dateChange" THEN last.edit
    ELSE NoEdit

\* The list of checkboxes is rendered.
ListShown == ~loading /\ error = NULL /\ Len(attendanceRecords) > 0

\* <Form.Select disabled={loading || availableDates.length === 0}>
DateSelectEnabled == ~loading /\ Len(availableDates) > 0

\* Mutant: Refresh Data is enabled during a load.
RefreshEnabled_whileLoading == mounted

\* Refresh Data: disabled={loading}; Try Again is rendered when !loading && error.
RefreshEnabled == mounted /\ ~loading

\* Mutant: the save affordance does not look at saving.
SaveEnabled_ignoresSaving == ~loading /\ selectedDate # ""

\* Save Attendance: disabled={loading || saving || !selectedDate}
SaveEnabled == ~loading /\ ~saving /\ selectedDate # ""

\* Mutant: the POST carries the slice of the matrix, not the view.
updateData_fromMatrix ==
    [date |-> selectedDate,
     attendance |-> updateAttendanceRecordsForDate(selectedDate, fullAttendanceData)]

\* The body of the update POST.
updateData == [date |-> selectedDate, attendance |-> attendanceRecords]

\* fetchAttendanceData up to its await.
FetchBegin ==
    /\ fetchInFlight < MaxInFlight
    /\ loading' = TRUE
    /\ error' = NULL
    /\ saveSuccess' = FALSE
    /\ saveError' = NULL
    /\ fetchInFlight' = fetchInFlight + 1
    /\ UNCHANGED <<clientData, saving, authRequired, crashed, authState, saveInFlight>>

\* useEffect(() => { fetchAttendanceData(); }, [])
Mount ==
    /\ ~mounted
    /\ mounted' = TRUE
    /\ FetchBegin
    /\ last' = [op |-> "fetchStart"]

\* A click on Refresh Data or on Try Again.
Refresh ==
    /\ RefreshEnabled
    /\ FetchBegin
    /\ last' = [op |-> "fetchStart"]
    /\ UNCHANGED mounted

\* fetchAttendanceData after its await, on a 200 answer with a well-formed body.
FetchOk(data) ==
    /\ fetchInFlight > 0
    /\ fetchInFlight' = fetchInFlight - 1
    /\ fullAttendanceData' = data.attendanceData
    /\ availableDates' = data.dates
    /\ IF Len(data.dates) > 0
         THEN /\ selectedDate' = data.dates[1]
              /\ attendanceRecords' =
                     updateAttendanceRecordsForDate(data.dates[1], data.attendanceData)
         ELSE UNCHANGED <<selectedDate, attendanceRecords>>
    /\ loading' = FALSE
    /\ last' = [op |-> "fetchOk", body |-> data]
    /\ UNCHANGED <<saving, error, saveError, saveSuccess, authRequired, mounted,
                   crashed, authState, saveInFlight>>

FetchErrorMessage(r) ==
    IF r.kind = "neterr" THEN "Failed to fetch"
    ELSE IF r.kind = "http"
      THEN IF r.status = 403 THEN "Access to this function requires authentication"
           ELSE "HTTP error!"
    ELSE "Invalid data format received from server"

\* Mutant: no finally block, loading stays set when the load fails.
FetchFail_noFinally(r) ==
    /\ fetchInFlight > 0
    /\ fetchInFlight' = fetchInFlight - 1
    /\ authRequired' = IF r.kind = "http" /\ r.status = 403 THEN TRUE ELSE authRequired
    /\ error' = FetchErrorMessage(r)
    /\ last' = [op |-> "fetchFail",
                 status |-> IF r.kind = "http" THEN r.status ELSE 0]
    /\ UNCHANGED <<clientData, loading, saving, saveError, saveSuccess, mounted, crashed,
                   authState, saveInFlight>>

\* Mutant: every non-2xx status is taken for a missing permission.
FetchFail_anyStatus(r) ==
    /\ fetchInFlight > 0
    /\ fetchInFlight' = fetchInFlight - 1
    /\ authRequired' = IF r.kind = "http" THEN TRUE ELSE authRequired
    /\ error' = FetchErrorMessage(r)
    /\ loading' = FALSE
    /\ last' = [op |-> "fetchFail",
                 status |-> IF r.kind = "http" THEN r.status ELSE 0]
    /\ UNCHANGED <<clientData, saving, saveError, saveSuccess, mounted, crashed, authState,
                   saveInFlight>>

\* fetchAttendanceData after its await, on every path that throws.
FetchFail(r) ==
    /\ fetchInFlight > 0
    /\ fetchInFlight' = fetchInFlight - 1
    /\ authRequired' = IF r.kind = "http" /\ r.status = 403 THEN TRUE ELSE authRequired
    /\ error' = FetchErrorMessage(r)
    /\ loading' = FALSE
    /\ last' = [op |-> "fetchFail",
                 status |-> IF r.kind = "http" THEN r.status ELSE 0]
    /\ UNCHANGED <<clientData, saving, saveError, saveSuccess, mounted, crashed, authState,
                   saveInFlight>>

handleDateChange(date) ==
    /\ DateSelectEnabled
    /\ date \in Range(availableDates)
    /\ selectedDate' = date
    /\ attendanceRecords' = updateAttendanceRecordsForDate(date, fullAttendanceData)
    /\ last' = [op |-> "dateChange", date |-> date, edit |-> EditBefore]
    /\ UNCHANGED <<fullAttendanceData, availableDates, loading, saving, error, saveError,
                   saveSuccess, authRequired, mounted, crashed, authState, fetchInFlight,
                   saveInFlight>>

\* Mutant: the write-through inverts the cell instead of setting it.
WriteThrough_inverts(index, checked) ==
    IF selectedDate # "" /\ index \in 1..Len(fullAttendanceData)
      THEN [fullAttendanceData EXCEPT
                ![index].attendance =
                    SetKey(@, selectedDate, ~Present(fullAttendanceData[index], selectedDate))]
      ELSE fullAttendanceData

\* The write-through of handleAttendanceChange to the matrix.
WriteThrough(index, checked) ==
    IF selectedDate # "" /\ index \in 1..Len(fullAttendanceData)
      THEN [fullAttendanceData EXCEPT
                ![index].attendance = SetKey(@, selectedDate, checked)]
      ELSE fullAttendanceData

handleAttendanceChange(index, checked) ==
    /\ ListShown
    /\ index \in 1..Len(attendanceRecords)
    /\ attendanceRecords' = [attendanceRecords EXCEPT ![index].present = checked]
    /\ fullAttendanceData' = WriteThrough(index, checked)
    /\ last' = [op |-> "toggle", index |-> index, checked |-> checked,
                 again |-> (last.op = "toggle" /\ last.index = index
                              /\ last.checked = checked)]
    /\ UNCHANGED <<availableDates, selectedDate, loading, saving, error, saveError,
                   saveSuccess, authRequired, mounted, crashed, authState, fetchInFlight,
                   saveInFlight>>

\* saveAttendanceData up to its await.
SaveStart ==
    /\ SaveEnabled
    /\ Len(saveInFlight) < MaxInFlight
    /\ saving' = TRUE
    /\ saveSuccess' = FALSE
    /\ saveError' = NULL
    /\ saveInFlight' = Append(saveInFlight, updateData)
    /\ last' = [op |-> "saveStart", afterLoad |-> (last.op = "fetchOk"),
                 matrix |-> fullAttendanceData, records |-> attendanceRecords]
    /\ UNCHANGED <<clientData, loading, error, authRequired, mounted, crashed, authState,
                   fetchInFlight>>

RemoveAt(s, k) == [i \in 1..(Len(s) - 1) |-> IF i < k THEN s[i] ELSE s[i + 1]]

\* saveAttendanceData after its await, on a 2xx answer.
SaveOk(k) ==
    /\ k \in 1..Len(saveInFlight)
    /\ saveInFlight' = RemoveAt(saveInFlight, k)
    /\ saveSuccess' = TRUE
    /\ saving' = FALSE
    /\ last' = [op |-> "saveOk"]
    /\ UNCHANGED <<clientData, loading, error, saveError, authRequired, mounted,
                   crashed, authState, fetchInFlight>>

\* saveAttendanceData after its await, when fetch rejects or answers non-2xx.
SaveFail(k, reason) ==
    /\ k \in 1..Len(saveInFlight)
    /\ saveInFlight' = RemoveAt(saveInFlight, k)
    /\ saveError' = reason
    /\ saving' = FALSE
    /\ last' = [op |-> "saveFail"]
    /\ UNCHANGED <<clientData, loading, error, saveSuccess, authRequired, mounted,
                   crashed, authState, fetchInFlight>>

SaveFailures == {"Failed to fetch", "HTTP error!"}

Init ==
    /\ attendanceRecords = <<>>
    /\ fullAttendanceData = <<>>
    /\ availableDates = <<>>
    /\ selectedDate = ""
    /\ loading = TRUE
    /\ saving = FALSE
    /\ error = NULL
    /\ saveError = NULL
    /\ saveSuccess = FALSE
    /\ authRequired = FALSE
    /\ mounted = FALSE
    /\ crashed = FALSE
    /\ user = NULL
    /\ isAuthorized = FALSE
    /\ signIns = 0
    /\ fetchInFlight = 0
    /\ saveInFlight = <<>>
    /\ sheet = <<>>
    /\ WhitelistIdle
    /\ last = [op |-> "init"]

\* The client of App.tsx against a network that answers anything the
\* endpoints can answer.
Next ==
    \/ Mount /\ UNCHANGED <<sheet, whitelist>>
    \/ Refresh /\ UNCHANGED <<sheet, whitelist>>
    \/ \E data \in Bodies : FetchOk(data) /\ UNCHANGED <<sheet, whitelist>>
    \/ \E r \in FetchFailures : FetchFail(r) /\ UNCHANGED <<sheet, whitelist>>
    \/ \E date \in Dates : handleDateChange(date) /\ UNCHANGED <<sheet, whitelist>>
    \/ \E index \in 1..MaxPeople, checked \in BOOLEAN :
           handleAttendanceChange(index, checked) /\ UNCHANGED <<sheet, whitelist>>
    \/ SaveStart /\ UNCHANGED <<sheet, whitelist>>
    \/ \E k \in 1..MaxInFlight : SaveOk(k) /\ UNCHANGED <<sheet, whitelist>>
    \/ \E k \in 1..MaxInFlight, reason \in SaveFailures :
           SaveFail(k, reason) /\ UNCHANGED <<sheet, whitelist>>

Spec == Init /\ [][Next]_vars

\* Liveness is checked with one-person rosters: whether a request resolves
\* does not depend on the roster.
LiveBodies == {b \in Bodies : Len(b.attendanceData) <= 1}

\* The network answers every request: each GET and each POST in flight
\* resolves or rejects.
FetchAnswered ==
    \/ \E data \in LiveBodies : FetchOk(data) /\ UNCHANGED <<sheet, whitelist>>
    \/ \E r \in FetchFailures : FetchFail(r) /\ UNCHANGED <<sheet, whitelist>>

SaveAnswered ==
    \/ \E k \in 1..MaxInFlight : SaveOk(k) /\ UNCHANGED <<sheet, whitelist>>
    \/ \E k \in 1..MaxInFlight, reason \in SaveFailures :
           SaveFail(k, reason) /\ UNCHANGED <<sheet, whitelist>>

NextLive ==
    \/ Mount /\ UNCHANGED <<sheet, whitelist>>
    \/ Refresh /\ UNCHANGED <<sheet, whitelist>>
    \/ FetchAnswered
    \/ \E date \in Dates : handleDateChange(date) /\ UNCHANGED <<sheet, whitelist>>
    \/ \E index \in 1..MaxPeople, checked \in BOOLEAN :
           handleAttendanceChange(index, checked) /\ UNCHANGED <<sheet, whitelist>>
    \/ SaveStart /\ UNCHANGED <<sheet, whitelist>>
    \/ SaveAnswered

LiveSpec ==
    Init /\ [][NextLive]_vars /\ WF_vars(Mount /\ UNCHANGED <<sheet, whitelist>>)
         /\ WF_vars(FetchAnswered) /\ WF_vars(SaveAnswered)

----------------------------------------------------------------------------
(* src/unnamed/part_002: the client behind the sign-in *)

AuthorizedUsers == {"u@x"}

\* The attendance tab is rendered: user && isAuthorized.  A render that reads
\* availableDates.length of undefined throws and unmounts the component.
P2_ContentShown == ~crashed /\ user # NULL /\ isAuthorized

P2_ListShown ==
    P2_ContentShown /\ ~loading /\ error = NULL /\ Len(attendanceRecords) > 0

P2_DateSelectEnabled == P2_ContentShown /\ ~loading /\ Len(availableDates) > 0

\* The onAuthStateChanged callback for a user of the whitelist, up to the await
\* inside fetchAttendanceData.
P2_AuthStateChanged(email) ==
    /\ ~crashed
    /\ user = NULL
    /\ signIns < MaxSignIns
    /\ fetchInFlight < MaxInFlight
    /\ signIns' = signIns + 1
    /\ user' = email
    /\ isAuthorized' = TRUE
    /\ crashed' = (availableDates = UNDEFINED)
    /\ loading' = TRUE
    /\ error' = NULL
    /\ fetchInFlight' = fetchInFlight + 1
    /\ last' = [op |-> "fetchStart"]
    /\ UNCHANGED <<clientData, saving, saveError, saveSuccess, authRequired, mounted,
                   saveInFlight>>

P2_handleSignOut ==
    /\ ~crashed
    /\ user # NULL
    /\ user' = NULL
    /\ isAuthorized' = FALSE
    /\ last' = [op |-> "signOut"]
    /\ UNCHANGED signIns
    /\ UNCHANGED <<clientData, loading, saving, error, saveError, saveSuccess,
                   authRequired, mounted, crashed, fetchInFlight, saveInFlight>>

\* fetchAttendanceData after its await, on a 200 answer with a well-formed body.
P2_FetchOk(data) ==
    /\ ~crashed
    /\ fetchInFlight > 0
    /\ fetchInFlight' = fetchInFlight - 1
    /\ fullAttendanceData' = data.attendanceData
    /\ availableDates' = data.dates
    /\ selectedDate' = IF Len(data.dates) > 0 THEN data.dates[1] ELSE ""
    /\ IF Len(data.dates) > 0
         THEN attendanceRecords' =
                  updateAttendanceRecordsForDate(data.dates[1], data.attendanceData)
         ELSE UNCHANGED attendanceRecords
    /\ loading' = FALSE
    /\ last' = [op |-> "fetchOk", body |-> data]
    /\ UNCHANGED <<saving, error, saveError, saveSuccess, authRequired, mounted,
                   crashed, authState, saveInFlight>>

\* fetchAttendanceData after its await, on the paths that throw.  The body is
\* not validated: with a body that lacks dates, the matrix and the DateList are
\* set (lines 142 and 145) before data.dates.length throws (line 148).
P2_FetchFail(r) ==
    /\ ~crashed
    /\ fetchInFlight > 0
    /\ fetchInFlight' = fetchInFlight - 1
    /\ IF r.kind = "noDates"
         THEN /\ fullAttendanceData' = r.attendanceData
              /\ availableDates' = UNDEFINED
              /\ crashed' = (user # NULL /\ isAuthorized)
         ELSE UNCHANGED <<fullAttendanceData, availableDates, crashed>>
    /\ error' = FetchErrorMessage(r)
    /\ loading' = FALSE
    /\ last' = [op |-> "fetchFail"]
    /\ UNCHANGED <<attendanceRecords, selectedDate, saving, saveError, saveSuccess,
                   authRequired, mounted, authState, saveInFlight>>

P2_handleAttendanceChange(index, checked) ==
    /\ P2_ListShown
    /\ index \in 1..Len(attendanceRecords)
    /\ attendanceRecords' = [attendanceRecords EXCEPT ![index].present = checked]
    /\ saveSuccess' = FALSE
    /\ saveError' = NULL
    /\ last' = [op |-> "toggle", index |-> index, checked |-> checked]
    /\ UNCHANGED <<fullAttendanceData, availableDates, selectedDate, loading, saving,
                   error, authRequired, mounted, crashed, authState, fetchInFlight,
                   saveInFlight>>

P2_handleDateChange(date) ==
    /\ P2_DateSelectEnabled
    /\ date \in Range(availableDates)
    /\ selectedDate' = date
    /\ attendanceRecords' = updateAttendanceRecordsForDate(date, fullAttendanceData)
    /\ last' = [op |-> "dateChange", date |-> date, edit |-> EditBefore]
    /\ UNCHANGED <<fullAttendanceData, availableDates, loading, saving, error, saveError,
                   saveSuccess, authRequired, mounted, crashed, authState, fetchInFlight,
                   saveInFlight>>

\* updatedFullData.findIndex((p) => p.name === record.name), 0 when none
FindIndexByName(data, name) ==
    IF \E i \in 1..Len(data) : data[i].name = name
      THEN CHOOSE i \in 1..Len(data) :
               /\ data[i].name = name
               /\ \A j \in 1..(i - 1) : data[j].name # name
      ELSE 0

\* attendanceRecords.forEach: the first n records written into the person
\* objects of the matrix, at the date given.
RECURSIVE FoldRecords(_, _, _, _)
FoldRecords(data, records, date, n) ==
    IF n = 0 THEN data
    ELSE LET d == FoldRecords(data, records, date, n - 1)
             k == FindIndexByName(d, records[n].name)
         IN  IF k = 0 THEN d
             ELSE [d EXCEPT ![k].attendance = SetKey(@, date, records[n].present)]

P2_updatedFullData ==
    FoldRecords(fullAttendanceData, attendanceRecords, selectedDate,
                Len(attendanceRecords))

\* saveAttendanceData up to its await.  The person objects of updatedFullData
\* are those of fullAttendanceData: the forEach writes into the matrix.
P2_SaveStart ==
    /\ P2_ListShown
    /\ ~saving
    /\ Len(saveInFlight) < MaxInFlight
    /\ saving' = TRUE
    /\ saveSuccess' = FALSE
    /\ saveError' = NULL
    /\ fullAttendanceData' = P2_updatedFullData
    /\ saveInFlight' = Append(saveInFlight,
                              [date |-> selectedDate, attendance |-> attendanceRecords,
                               updatedFullData |-> P2_updatedFullData])
    /\ last' = [op |-> "saveStart", afterLoad |-> (last.op = "fetchOk"),
                 matrix |-> fullAttendanceData, records |-> attendanceRecords]
    /\ UNCHANGED <<attendanceRecords, availableDates, selectedDate, loading, error,
                   authRequired, mounted, crashed, authState, fetchInFlight>>

\* saveAttendanceData after its await, on a 2xx answer:
\* setFullAttendanceData(updatedFullData) with the person objects folded at the start.
P2_SaveOk(k) ==
    /\ ~crashed
    /\ k \in 1..Len(saveInFlight)
    /\ saveInFlight' = RemoveAt(saveInFlight, k)
    /\ saveSuccess' = TRUE
    /\ saving' = FALSE
    /\ fullAttendanceData' = saveInFlight[k].updatedFullData
    /\ last' = [op |-> "saveOk"]
    /\ UNCHANGED <<attendanceRecords, availableDates, selectedDate, loading, error,
                   saveError, authRequired, mounted, crashed, authState, fetchInFlight>>

P2_SaveFail(k, reason) ==
    /\ ~crashed
    /\ k \in 1..Len(saveInFlight)
    /\ saveInFlight' = RemoveAt(saveInFlight, k)
    /\ saveError' = reason
    /\ saving' = FALSE
    /\ last' = [op |-> "saveFail"]
    /\ UNCHANGED <<clientData, loading, error, saveSuccess, authRequired, mounted,
                   crashed, authState, fetchInFlight>>

NextP2 ==
    \/ \E email \in AuthorizedUsers : P2_AuthStateChanged(email) /\ UNCHANGED <<sheet, whitelist>>
    \/ P2_handleSignOut /\ UNCHANGED <<sheet, whitelist>>
    \/ \E data \in Bodies : P2_FetchOk(data) /\ UNCHANGED <<sheet, whitelist>>
    \/ \E r \in FetchFailures : P2_FetchFail(r) /\ UNCHANGED <<sheet, whitelist>>
    \/ \E date \in Dates : P2_handleDateChange(date) /\ UNCHANGED <<sheet, whitelist>>
    \/ \E index \in 1..MaxPeople, checked \in BOOLEAN :
           P2_handleAttendanceChange(index, checked) /\ UNCHANGED <<sheet, whitelist>>
    \/ P2_SaveStart /\ UNCHANGED <<sheet, whitelist>>
    \/ \E k \in 1..MaxInFlight : P2_SaveOk(k) /\ UNCHANGED <<sheet, whitelist>>
    \/ \E k \in 1..MaxInFlight, reason \in SaveFailures :
           P2_SaveFail(k, reason) /\ UNCHANGED <<sheet, whitelist>>

SpecP2 == Init /\ [][NextP2]_vars

----------------------------------------------------------------------------
(* src/unnamed/part_003: the spreadsheet adapter and its two endpoints *)

\* A cell is the string values.get reports for it: a boolean written RAW reads
\* back as TRUE or FALSE, and an empty cell (or one a short row lacks) as "".
CellValues == {"TRUE", "FALSE", ""}

MaxRows == 2        \* most data rows of a sheet

SheetHeaders == {<<"Name">>, <<"Name", "d1">>, <<"Name", "d1", "d2">>, <<"Name", "d1", "d1">>}

SheetNames == {"A", "B"}

SheetRows(h) == {<<n>> \o c : n \in SheetNames, c \in [1..(Len(h) - 1) -> CellValues]}

\* The tables values.get can return: nothing, or a header and data rows.
Sheets ==
    {<<>>} \cup UNION {{<<h>> \o rs : rs \in SeqsUpTo(SheetRows(h), MaxRows)} :
                       h \in SheetHeaders}

\* value === "TRUE" || value === "true" || value === true
IsPresent(value) == value = "TRUE" \/ value = "true"

\* dates.forEach over the first n dates of one row
RECURSIVE RowAttendance(_, _, _)
RowAttendance(row, dates, n) ==
    IF n = 0 THEN [d \in {} |-> FALSE]
    ELSE SetKey(RowAttendance(row, dates, n - 1), dates[n],
                IF n + 1 <= Len(row) THEN IsPresent(row[n + 1]) ELSE FALSE)

getAttendanceDataFromSheet(values) ==
    IF Len(values) > 0
      THEN LET dates == Tail(values[1])
           IN  [dates |-> dates,
                attendanceData |->
                    [i \in 1..(Len(values) - 1) |->
                        [name |-> values[i + 1][1],
                         attendance |-> RowAttendance(values[i + 1], dates, Len(dates))]]]
      ELSE [dates |-> <<>>, attendanceData |-> <<>>]

\* findIndex: the first position (from 1) where the test holds, 0 when none
FirstIndex(s, Test(_)) ==
    IF \E i \in 1..Len(s) : Test(s[i])
      THEN CHOOSE i \in 1..Len(s) : Test(s[i]) /\ \A j \in 1..(i - 1) : ~Test(s[j])
      ELSE 0

\* Mutant: a name that matches no row empties the batch.
batchUpdateData_strict(values, col, records, n) ==
    IF \E i \in 1..n : \A r \in 1..Len(values) : values[r][1] # records[i].name
      THEN <<>>
      ELSE [i \in 1..n |->
               [row |-> CHOOSE r \in 1..Len(values) :
                            /\ values[r][1] = records[i].name
                            /\ \A q \in 1..(r - 1) : values[q][1] # records[i].name,
                col |-> col,
                value |-> IF records[i].present THEN "TRUE" ELSE "FALSE"]]

\* The batch of updateAttendanceInSheet for the first n records: a sequence of
\* [row, col, value], one per record whose name is the first cell of a row.
RECURSIVE batchUpdateData(_, _, _, _)
batchUpdateData(values, col, records, n) ==
    IF n = 0 THEN <<>>
    ELSE LET rest == batchUpdateData(values, col, records, n - 1)
             nameIs(row) == row[1] = records[n].name
             rowIndex == FirstIndex(values, nameIs)
         IN  IF rowIndex = 0 THEN rest
             ELSE Append(rest, [row |-> rowIndex, col |-> col,
                                value |-> IF records[n].present THEN "TRUE" ELSE "FALSE"])

\* One write of the batch; a row shorter than the column is padded.
WriteCell(values, w) ==
    [values EXCEPT ![w.row] =
        [c \in 1..(IF Len(@) < w.col THEN w.col ELSE Len(@)) |->
            IF c = w.col THEN w.value ELSE IF c <= Len(@) THEN @[c] ELSE ""]]

\* values.batchUpdate applies the writes of the batch in order.
RECURSIVE batchUpdate(_, _, _)
batchUpdate(values, batch, n) ==
    IF n = 0 THEN values ELSE WriteCell(batchUpdate(values, batch, n - 1), batch[n])

\* What the Sheets API does during one invocation: the client cannot be
\* built, values.get throws, values.batchUpdate throws, or every call succeeds.
\* values.batchUpdate is one request: it is applied whole or not at all.
ApiOutcomes == {"ok", "noClient", "readFails", "writeFails"}

\* Mutant: a date that is no header cell falls back to the first date column.
dateColumn_fallback(headerRow, date) ==
    IF \E i \in 1..Len(headerRow) : headerRow[i] = date
      THEN CHOOSE i \in 1..Len(headerRow) :
               headerRow[i] = date /\ \A j \in 1..(i - 1) : headerRow[j] # date
      ELSE 2

\* headerRow.findIndex((header) => header === date), 0 when there is none
dateColumn(headerRow, date) ==
    LET isDate(header) == header = date IN FirstIndex(headerRow, isDate)

\* Mutant: one values.update call per located cell; when the Sheets API fails,
\* it is the last call that fails.
writeCalls_perCell(values, batch, api) ==
    IF api = "writeFails"
      THEN [writes |-> Len(batch), done |-> FALSE,
            values |-> batchUpdate(values, batch, Len(batch) - 1)]
      ELSE [writes |-> Len(batch), done |-> TRUE,
            values |-> batchUpdate(values, batch, Len(batch))]

\* The write of updateAttendanceInSheet: [writes, done, values], the number of
\* write calls, whether they succeeded, and the sheet after them.
writeCalls(values, batch, api) ==
    IF api = "writeFails"
      THEN [writes |-> 1, done |-> FALSE, values |-> values]
      ELSE [writes |-> 1, done |-> TRUE, values |-> batchUpdate(values, batch, Len(batch))]

\* updateAttendanceInSheet: [ok, values, reads, writes, batch], the return
\* value, the sheet after it, the numbers of read and of write calls, and the
\* batch it built.
updateAttendanceInSheet(values, date, records, api) ==
    LET failed == [ok |-> FALSE, values |-> values,
                   reads |-> IF api = "noClient" THEN 0 ELSE 1,
                   writes |-> 0, batch |-> <<>>]
    IN  IF api \in {"noClient", "readFails"} \/ Len(values) = 0 THEN failed
        ELSE LET dateColumnIndex == dateColumn(values[1], date)
                 batch == batchUpdateData(values, dateColumnIndex, records, Len(records))
                 w == writeCalls(values, batch, api)
             IN  IF dateColumnIndex = 0 THEN failed
                 ELSE IF Len(batch) > 0
                   THEN [ok |-> w.done, values |-> w.values, reads |-> 1,
                         writes |-> w.writes, batch |-> batch]
                   ELSE failed

\* !request.body.date does not hold: the field is there and is not "".
HasDate(body) == "date" \in DOMAIN body /\ body.date # ""

\* !request.body.attendance does not hold: the field is there (an empty array
\* is not falsy).
HasAttendance(body) == "attendance" \in DOMAIN body

\* The answer of the validation of updateAttendance.
InvalidRequest(values) ==
    [status |-> 400, values |-> values, reads |-> 0, writes |-> 0, batch |-> <<>>,
     error |-> "Invalid request data. Required fields: date, attendance"]

\* Mutant: the validation looks at the date only.
updateAttendance_dateOnly(values, body, api) ==
    IF ~HasDate(body) THEN InvalidRequest(values)
      ELSE LET r == updateAttendanceInSheet(values, body.date,
                        IF HasAttendance(body) THEN body.attendance ELSE <<>>,
                        api)
           IN  [status |-> IF r.ok THEN 200 ELSE 500, values |-> r.values,
                reads |-> r.reads, writes |-> r.writes, batch |-> r.batch,
                error |-> IF r.ok THEN NULL
                          ELSE "Failed to update attendance data in Google Sheets"]

\* The updateAttendance endpoint: [status, error, values, reads, writes,
\* batch].  The answer also echoes the request (receivedData), which says
\* nothing of the outcome and is left out.
updateAttendance(values, body, api) ==
    IF ~HasDate(body) \/ ~HasAttendance(body)
      THEN InvalidRequest(values)
      ELSE LET r == updateAttendanceInSheet(values, body.date, body.attendance, api)
           IN  [status |-> IF r.ok THEN 200 ELSE 500, values |-> r.values,
                reads |-> r.reads, writes |-> r.writes, batch |-> r.batch,
                error |-> IF r.ok THEN NULL
                          ELSE "Failed to update attendance data in Google Sheets"]

\* The getAttendanceData endpoint: [status, body].
getAttendanceData(values, apiOk) ==
    IF apiOk
      THEN [status |-> 200, body |-> getAttendanceDataFromSheet(values)]
      ELSE [status |-> 500, body |-> [error |-> "Failed to get attendance data"]]

\* The getAttendanceData endpoint answers a GET of the client, and
\* fetchAttendanceData resumes with the answer.
GetAnswered(apiOk) ==
    /\ UNCHANGED <<sheet, whitelist>>
    /\ IF apiOk
         THEN FetchOk(getAttendanceDataFromSheet(sheet))
         ELSE FetchFail([kind |-> "http", status |-> 500])

\* The updateAttendance endpoint answers a POST of the client, and
\* saveAttendanceData resumes with the answer.
UpdateAnswered(k, api) ==
    /\ k \in 1..Len(saveInFlight)
    /\ LET r == updateAttendance(sheet, saveInFlight[k], api)
       IN  /\ sheet' = r.values
           /\ IF r.status = 200 THEN SaveOk(k) ELSE SaveFail(k, "HTTP error!")
    /\ UNCHANGED whitelist

InitSheet ==
    /\ attendanceRecords = <<>>
    /\ fullAttendanceData = <<>>
    /\ availableDates = <<>>
    /\ selectedDate = ""
    /\ loading = TRUE
    /\ saving = FALSE
    /\ error = NULL
    /\ saveError = NULL
    /\ saveSuccess = FALSE
    /\ authRequired = FALSE
    /\ mounted = FALSE
    /\ crashed = FALSE
    /\ user = NULL
    /\ isAuthorized = FALSE
    /\ signIns = 0
    /\ fetchInFlight = 0
    /\ saveInFlight = <<>>
    /\ sheet \in Sheets
    /\ WhitelistIdle
    /\ last = [op |-> "init"]

\* The client of App.tsx loading and saving, with no edit in between,
\* against the two endpoints and one sheet.
NextSheet ==
    \/ Mount /\ UNCHANGED <<sheet, whitelist>>
    \/ Refresh /\ UNCHANGED <<sheet, whitelist>>
    \/ \E apiOk \in BOOLEAN : GetAnswered(apiOk)
    \/ SaveStart /\ UNCHANGED <<sheet, whitelist>>
    \/ \E k \in 1..MaxInFlight, api \in ApiOutcomes : UpdateAnswered(k, api)

SpecSheet == InitSheet /\ [][NextSheet]_vars

----------------------------------------------------------------------------
(* src/unnamed/part_003: the two endpoints, on any sheet and any request *)

\* Cells that differ from TRUE by their case only.
CaseSheets == {<<<<"Name", "d1">>, <<"A", v>>>> : v \in {"true", "True", "tRuE"}}

\* The sheets the endpoints are called on: checked and empty boxes, and the
\* cells above.
AdapterSheets ==
    {s \in Sheets : \A r \in 1..Len(s) : \A c \in 1..Len(s[r]) : s[r][c] # "FALSE"}
        \cup CaseSheets

\* request.body of updateAttendance: a date of the header, a date of no
\* header, or none, and records of a name of the sheet or of no row.
RequestDates == {"d1", "d2", "dX", ""}

RequestRecords ==
    {[name |-> "A", present |-> TRUE], [name |-> "A", present |-> FALSE],
     [name |-> "Z", present |-> TRUE]}

UpdateBodies ==
    {[date |-> d, attendance |-> rs] :
        d \in RequestDates, rs \in SeqsUpTo(RequestRecords, MaxPeople)}

\* The updateAttendance endpoint handles the request in flight.
UpdateCalled(api) ==
    /\ Len(saveInFlight) = 1
    /\ LET body == saveInFlight[1]
           r == updateAttendance(sheet, body, api)
       IN  /\ sheet' = r.values
           /\ last' = [op |-> "update", body |-> body, api |-> api, before |-> sheet,
                        status |-> r.status, error |-> r.error, reads |-> r.reads,
                        writes |-> r.writes,
                        batch |-> r.batch]
    /\ saveInFlight' = <<>>
    /\ UNCHANGED <<clientData, loading, saving, error, saveError, saveSuccess,
                   authRequired, mounted, crashed, authState, fetchInFlight, whitelist>>

\* One request to the getAttendanceData endpoint.
GetCalled(apiOk) ==
    LET r == getAttendanceData(sheet, apiOk)
    IN  /\ last' = [op |-> "get", before |-> sheet, status |-> r.status, body |-> r.body]
        /\ UNCHANGED <<clientData, loading, saving, error, saveError, saveSuccess,
                       authRequired, mounted, crashed, authState, fetchInFlight,
                       saveInFlight, sheet, whitelist>>

InitAdapter ==
    /\ attendanceRecords = <<>>
    /\ fullAttendanceData = <<>>
    /\ availableDates = <<>>
    /\ selectedDate = ""
    /\ loading = TRUE
    /\ saving = FALSE
    /\ error = NULL
    /\ saveError = NULL
    /\ saveSuccess = FALSE
    /\ authRequired = FALSE
    /\ mounted = FALSE
    /\ crashed = FALSE
    /\ user = NULL
    /\ isAuthorized = FALSE
    /\ signIns = 0
    /\ fetchInFlight = 0
    /\ saveInFlight \in {<<body>> : body \in UpdateBodies}
    /\ sheet \in AdapterSheets
    /\ WhitelistIdle
    /\ last = [op |-> "init"]

NextAdapter ==
    \/ \E api \in ApiOutcomes : UpdateCalled(api)
    \/ \E apiOk \in BOOLEAN : GetCalled(apiOk)

SpecAdapter == InitAdapter /\ [][NextAdapter]_vars

----------------------------------------------------------------------------
(* src/src/components/UserManagement.tsx, lines 235-360: the whitelist in   *)
(* Firestore and its cache, and the authorization check of                  *)
(* src/unnamed/part_002 that awaits it.  A call that awaits Firestore is an *)
(* entry of calls; Firestore serves a read some time before the call        *)
(* resumes with it.                                                         *)

MaxDocs == 2        \* most documents ever created in the collection
MaxTicks == 2       \* clock steps of one session
MaxCalls == 3       \* calls of the whitelist functions in one session

Emails == {"a@x", "A@X", "b@x"}

\* The emails the administrator types to add or remove a user.
TypedEmails == {"A@X", "b@x"}

\* email.toLowerCase()
toLowerCase(email) ==
    IF email = "A@X" THEN "a@x"
    ELSE IF email = "John.Davis.92790@gmail.com" THEN "john.davis.92790@gmail.com"
    ELSE email

\* src/src/auth-config.ts: the whitelist in the source
AUTHORIZED_EMAILS == <<"john.davis.92790@gmail.com">>

\* Mutant: the email is looked up as it is typed.
isUserAuthorized_exact(email, authorizedEmails) ==
    email # NULL /\ email \in Range(authorizedEmails)

\* isUserAuthorized, of auth-config.ts on AUTHORIZED_EMAILS and of the
\* Firestore whitelist on what getAuthorizedEmails returned.
isUserAuthorized(email, authorizedEmails) ==
    email # NULL /\ toLowerCase(email) \in Range(authorizedEmails)

\* The administrator who adds users (currentUserEmail).
Admin == "a@x"

Doc(email, addedBy) == [email |-> email, addedBy |-> addedBy]

\* What is left where a document was deleted.
Deleted == Doc(NULL, NULL)

\* The collections a session can find.
InitStores == {<<>>, <<Doc("a@x", Admin)>>, <<Doc("a@x", Admin), Doc("b@x", Admin)>>}

\* The ids of the documents of the collection.
DocIds == {i \in 1..Len(store) : store[i] # Deleted}

\* getDocs(usersCollection), then docs.map((doc) => doc.data().email.toLowerCase())
RECURSIVE SnapshotEmails(_)
SnapshotEmails(n) ==
    IF n = 0 THEN <<>>
    ELSE IF store[n] = Deleted THEN SnapshotEmails(n - 1)
    ELSE Append(SnapshotEmails(n - 1), toLowerCase(store[n].email))

\* query(usersCollection, where("email", "==", email.toLowerCase()))
QueryIds(email) == {i \in DocIds : store[i].email = toLowerCase(email)}

\* cachedAuthorizedEmails.length > 0 && now - lastFetchTime < CACHE_DURATION
CacheFresh == Len(cachedAuthorizedEmails) > 0 /\ now - lastFetchTime < CACHE_DURATION

\* What the whitelist calls leave alone in the attendance client.
attendanceClient ==
    <<clientData, saving, saveError, saveSuccess, authRequired, mounted, crashed,
      saveInFlight, sheet>>

\* getAuthorizedEmails returns result to its caller: loadAuthorizedEmails of
\* the component ("list"), or isUserAuthorized awaited by the
\* onAuthStateChanged callback ("check"), which goes on to fetch the
\* attendance data or to sign the user out.  signedIn is the user the
\* callback has set.
Returned(caller, email, result, failed, cacheBefore, signedIn) ==
    IF caller = "list"
      THEN /\ last' = [op |-> "list", result |-> result, failed |-> failed,
                        cacheBefore |-> cacheBefore]
           /\ user' = signedIn
           /\ UNCHANGED <<isAuthorized, loading, error, fetchInFlight>>
      ELSE LET authorized == isUserAuthorized(email, result)
           IN  /\ last' = [op |-> "check", email |-> email, failed |-> failed,
                            result |-> result,
                            outcome |-> IF authorized THEN "authorized" ELSE "unauthorized",
                            cacheBefore |-> cacheBefore, signedOut |-> ~authorized]
               /\ isAuthorized' = authorized
               /\ IF authorized
                    THEN /\ loading' = TRUE
                         /\ error' = NULL
                         /\ fetchInFlight' = fetchInFlight + 1
                         /\ user' = signedIn
                    ELSE /\ user' = NULL
                         /\ UNCHANGED <<loading, error, fetchInFlight>>

\* getAuthorizedEmails up to its await: the cache is returned, and the caller
\* resumes with it before any other event, or a read of the collection is sent.
getAuthorizedEmails(caller, email, signedIn) ==
    /\ callsStarted < MaxCalls
    /\ callsStarted' = callsStarted + 1
    /\ IF CacheFresh
         THEN /\ Returned(caller, email, cachedAuthorizedEmails, FALSE,
                          cachedAuthorizedEmails, signedIn)
              /\ UNCHANGED calls
         ELSE /\ Len(calls) < MaxInFlight
              /\ calls' = Append(calls, [fn |-> "getAuthorizedEmails", caller |-> caller,
                                         email |-> email, now |-> now, served |-> FALSE,
                                         docs |-> <<>>,
                                         cacheBefore |-> cachedAuthorizedEmails])
              /\ last' = [op |-> "getStart"]
              /\ user' = signedIn
              /\ UNCHANGED <<isAuthorized, loading, error, fetchInFlight>>
    /\ UNCHANGED <<store, cachedAuthorizedEmails, lastFetchTime, now>>

\* loadAuthorizedEmails of the UserManagement component
loadAuthorizedEmails ==
    /\ getAuthorizedEmails("list", NULL, user)
    /\ UNCHANGED <<attendanceClient, signIns>>

\* The onAuthStateChanged callback of part_002 for a user who signs in, up to
\* the await of isUserAuthorized and, when the cache answers, beyond it.
onAuthStateChanged(email) ==
    /\ user = NULL
    /\ signIns < MaxSignIns
    /\ signIns' = signIns + 1
    /\ getAuthorizedEmails("check", email, email)
    /\ UNCHANGED attendanceClient

\* Firestore serves the read of call k.
GetDocsServed(k) ==
    /\ k \in 1..Len(calls)
    /\ calls[k].fn = "getAuthorizedEmails" /\ ~calls[k].served
    /\ calls' = [calls EXCEPT ![k].served = TRUE, ![k].docs = SnapshotEmails(Len(store))]
    /\ last' = [op |-> "served"]
    /\ UNCHANGED <<store, cachedAuthorizedEmails, lastFetchTime, now, user, isAuthorized,
                   loading, error, fetchInFlight, attendanceClient, signIns, callsStarted>>

\* getAuthorizedEmails after its await, when getDocs resolved: the documents
\* read become the cache.
GetDocsResolved(k) ==
    /\ k \in 1..Len(calls)
    /\ calls[k].fn = "getAuthorizedEmails" /\ calls[k].served
    /\ cachedAuthorizedEmails' = calls[k].docs
    /\ lastFetchTime' = calls[k].now
    /\ calls' = RemoveAt(calls, k)
    /\ Returned(calls[k].caller, calls[k].email, calls[k].docs, FALSE,
                calls[k].cacheBefore, user)
    /\ UNCHANGED <<store, now, attendanceClient, signIns, callsStarted>>

\* Mutant: the catch of getAuthorizedEmails drops the cache.
GetDocsRejected_clears(k) ==
    /\ k \in 1..Len(calls)
    /\ calls[k].fn = "getAuthorizedEmails"
    /\ calls' = RemoveAt(calls, k)
    /\ cachedAuthorizedEmails' = <<>>
    /\ lastFetchTime' = 0
    /\ Returned(calls[k].caller, calls[k].email, <<>>, TRUE, cachedAuthorizedEmails, user)
    /\ UNCHANGED <<store, now, attendanceClient, signIns, callsStarted>>

\* getAuthorizedEmails after its await, when getDocs rejected.
GetDocsRejected(k) ==
    /\ k \in 1..Len(calls)
    /\ calls[k].fn = "getAuthorizedEmails"
    /\ calls' = RemoveAt(calls, k)
    /\ Returned(calls[k].caller, calls[k].email, <<>>, TRUE, cachedAuthorizedEmails, user)
    /\ UNCHANGED <<store, cachedAuthorizedEmails, lastFetchTime, now, attendanceClient,
                   signIns, callsStarted>>

\* What a step of addAuthorizedEmail or removeAuthorizedEmail leaves alone.
mutationFrame ==
    <<now, user, isAuthorized, loading, error, fetchInFlight, attendanceClient, signIns>>

\* The frame of a step that resumes a call.
resumeFrame == <<mutationFrame, callsStarted>>

\* addAuthorizedEmail up to the await of its existence query.
addAuthorizedEmail(email, addedBy) ==
    /\ Len(calls) < MaxInFlight
    /\ callsStarted < MaxCalls
    /\ callsStarted' = callsStarted + 1
    /\ calls' = Append(calls, [fn |-> "addAuthorizedEmail", email |-> email,
                               addedBy |-> addedBy, queried |-> FALSE])
    /\ last' = [op |-> "addStart", email |-> email]
    /\ UNCHANGED <<store, cachedAuthorizedEmails, lastFetchTime, mutationFrame>>

\* addAuthorizedEmail after the existence query.
AddQueried(k) ==
    /\ k \in 1..Len(calls)
    /\ calls[k].fn = "addAuthorizedEmail" /\ ~calls[k].queried
    /\ IF QueryIds(calls[k].email) # {}
         THEN /\ calls' = RemoveAt(calls, k)
              /\ last' = [op |-> "add", email |-> calls[k].email, result |-> FALSE,
                          rejected |-> FALSE]
         ELSE /\ calls' = [calls EXCEPT ![k].queried = TRUE]
              /\ last' = [op |-> "addQueried"]
    /\ UNCHANGED <<store, cachedAuthorizedEmails, lastFetchTime, resumeFrame>>

\* addAuthorizedEmail after addDoc: the cache is invalidated.
AddDocResolved(k) ==
    /\ k \in 1..Len(calls)
    /\ calls[k].fn = "addAuthorizedEmail" /\ calls[k].queried
    /\ Len(store) < MaxDocs
    /\ store' = Append(store, Doc(toLowerCase(calls[k].email), calls[k].addedBy))
    /\ cachedAuthorizedEmails' = <<>>
    /\ lastFetchTime' = 0
    /\ calls' = RemoveAt(calls, k)
    /\ last' = [op |-> "add", email |-> calls[k].email, result |-> TRUE,
                          rejected |-> FALSE]
    /\ UNCHANGED resumeFrame

\* removeAuthorizedEmail up to the await of its query.
removeAuthorizedEmail(email) ==
    /\ Len(calls) < MaxInFlight
    /\ callsStarted < MaxCalls
    /\ callsStarted' = callsStarted + 1
    /\ calls' = Append(calls, [fn |-> "removeAuthorizedEmail", email |-> email,
                               queried |-> FALSE, id |-> 0])
    /\ last' = [op |-> "removeStart", email |-> email]
    /\ UNCHANGED <<store, cachedAuthorizedEmails, lastFetchTime, mutationFrame>>

\* removeAuthorizedEmail after its query: querySnapshot.docs[0].id is kept.
RemoveQueried(k) ==
    /\ k \in 1..Len(calls)
    /\ calls[k].fn = "removeAuthorizedEmail" /\ ~calls[k].queried
    /\ LET ids == QueryIds(calls[k].email)
       IN  IF ids = {}
             THEN /\ calls' = RemoveAt(calls, k)
                  /\ last' = [op |-> "remove", email |-> calls[k].email, result |-> FALSE,
                          rejected |-> FALSE]
             ELSE /\ calls' = [calls EXCEPT ![k].queried = TRUE,
                                            ![k].id = CHOOSE i \in ids : \A j \in ids : i <= j]
                  /\ last' = [op |-> "removeQueried"]
    /\ UNCHANGED <<store, cachedAuthorizedEmails, lastFetchTime, resumeFrame>>

\* removeAuthorizedEmail after deleteDoc: the cache is invalidated.
DeleteDocResolved(k) ==
    /\ k \in 1..Len(calls)
    /\ calls[k].fn = "removeAuthorizedEmail" /\ calls[k].queried
    /\ store' = [store EXCEPT ![calls[k].id] = Deleted]
    /\ cachedAuthorizedEmails' = <<>>
    /\ lastFetchTime' = 0
    /\ calls' = RemoveAt(calls, k)
    /\ last' = [op |-> "remove", email |-> calls[k].email, result |-> TRUE,
                          rejected |-> FALSE]
    /\ UNCHANGED resumeFrame

\* A Firestore call of addAuthorizedEmail or removeAuthorizedEmail rejects:
\* the catch returns false.
MutationRejected(k) ==
    /\ k \in 1..Len(calls)
    /\ calls[k].fn \in {"addAuthorizedEmail", "removeAuthorizedEmail"}
    /\ calls' = RemoveAt(calls, k)
    /\ last' = [op |-> IF calls[k].fn = "addAuthorizedEmail" THEN "add" ELSE "remove",
                 email |-> calls[k].email, result |-> FALSE, rejected |-> TRUE]
    /\ UNCHANGED <<store, cachedAuthorizedEmails, lastFetchTime, resumeFrame>>

\* Half the life of the cache goes by.
Tick ==
    /\ now < CACHE_DURATION + MaxTicks * (CACHE_DURATION \div 2)
    /\ now' = now + CACHE_DURATION \div 2
    /\ last' = [op |-> "tick"]
    /\ UNCHANGED <<store, cachedAuthorizedEmails, lastFetchTime, calls, callsStarted, user,
                   isAuthorized, loading, error, fetchInFlight, attendanceClient, signIns>>

InitAuth ==
    /\ attendanceRecords = <<>>
    /\ fullAttendanceData = <<>>
    /\ availableDates = <<>>
    /\ selectedDate = ""
    /\ loading = TRUE
    /\ saving = FALSE
    /\ error = NULL
    /\ saveError = NULL
    /\ saveSuccess = FALSE
    /\ authRequired = FALSE
    /\ mounted = FALSE
    /\ crashed = FALSE
    /\ user = NULL
    /\ isAuthorized = FALSE
    /\ signIns = 0
    /\ fetchInFlight = 0
    /\ saveInFlight = <<>>
    /\ sheet = <<>>
    /\ store \in InitStores
    /\ cachedAuthorizedEmails = <<>>
    /\ lastFetchTime = 0
    /\ now = CACHE_DURATION
    /\ calls = <<>>
    /\ callsStarted = 0
    /\ last = [op |-> "init"]

NextAuth ==
    \/ loadAuthorizedEmails
    \/ \E email \in Emails : onAuthStateChanged(email)
    \/ \E k \in 1..MaxInFlight : GetDocsServed(k)
    \/ \E k \in 1..MaxInFlight : GetDocsResolved(k)
    \/ \E k \in 1..MaxInFlight : GetDocsRejected(k)
    \/ \E email \in TypedEmails : addAuthorizedEmail(email, Admin)
    \/ \E k \in 1..MaxInFlight : AddQueried(k)
    \/ \E k \in 1..MaxInFlight : AddDocResolved(k)
    \/ \E email \in TypedEmails : removeAuthorizedEmail(email)
    \/ \E k \in 1..MaxInFlight : RemoveQueried(k)
    \/ \E k \in 1..MaxInFlight : DeleteDocResolved(k)
    \/ \E k \in 1..MaxInFlight : MutationRejected(k)
    \/ P2_handleSignOut /\ UNCHANGED <<sheet, whitelist>>
    \/ Tick

SpecAuth == InitAuth /\ [][NextAuth]_vars

----------------------------------------------------------------------------
(* The claims *)

\* The view shows, for every person of the matrix and in matrix order, the
\* value of the matrix at the date given (false when the matrix has none).
IsProjection(records, data, date) ==
    /\ Len(records) = Len(data)
    /\ \A i \in 1..Len(data) :
          /\ records[i].name = data[i].name
          /\ records[i].present =
                 (date \in DOMAIN data[i].attendance /\ data[i].attendance[date])

\* C1: after handleDateChange(d), for a date d of the DateList, the view has
\* one entry per person of the matrix, in matrix order, and shows for each the
\* value of the matrix at d, false when the matrix has no entry for d.
C1_SelectDateProjects ==
    last.op = "dateChange" =>
        /\ selectedDate = last.date
        /\ last.date \in Range(availableDates)
        /\ IsProjection(attendanceRecords, fullAttendanceData, last.date)

C1_Witness ==
    /\ last.op = "dateChange"
    /\ Len(availableDates) = 2
    /\ last.date = availableDates[2]
    /\ \E i \in 1..Len(attendanceRecords) : attendanceRecords[i].present
    /\ \E i \in 1..Len(attendanceRecords) : ~attendanceRecords[i].present

\* C2: a toggle of a valid index of the view sets the view entry and, in the
\* same step, the matrix cell of that index at the current date; every other
\* view entry, every other matrix cell, the DateList and the current date are
\* unchanged.
C2_ToggleWritesThrough ==
    [][\A index \in 1..MaxPeople, checked \in BOOLEAN :
          handleAttendanceChange(index, checked) =>
              /\ attendanceRecords'[index].present = checked
              /\ \A j \in 1..Len(attendanceRecords) :
                    j # index => attendanceRecords'[j] = attendanceRecords[j]
              /\ index \in 1..Len(fullAttendanceData')
              /\ selectedDate \in DOMAIN fullAttendanceData'[index].attendance
              /\ fullAttendanceData'[index].attendance[selectedDate] = checked
              /\ Len(fullAttendanceData') = Len(fullAttendanceData)
              /\ \A j \in 1..Len(fullAttendanceData) :
                    /\ fullAttendanceData'[j].name = fullAttendanceData[j].name
                    /\ \A d \in DOMAIN fullAttendanceData[j].attendance :
                          (j # index \/ d # selectedDate) =>
                              /\ d \in DOMAIN fullAttendanceData'[j].attendance
                              /\ fullAttendanceData'[j].attendance[d] =
                                     fullAttendanceData[j].attendance[d]
              /\ UNCHANGED <<availableDates, selectedDate>>]_vars

\* C3: an edit made on a date is shown again when date changes, with no load
\* in between, lead back to that date.
C3_EditSurvivesDateSwitch ==
    (last.op = "dateChange" /\ last.edit.index > 0 /\ last.edit.date = selectedDate) =>
        /\ last.edit.index <= Len(attendanceRecords)
        /\ attendanceRecords[last.edit.index].present = last.edit.checked

C5_RoundTripKeepsSheet ==
    [][(last.op = "saveStart" /\ last.afterLoad) => sheet' = sheet]_vars

\* C6: when a save fails, the matrix and the view are what they were when the
\* save was called, saveError is set and saveSuccess is false.
C6_FailedSaveKeepsData ==
    [][(last.op = "saveStart" /\ last'.op = "saveFail") =>
          /\ fullAttendanceData' = last.matrix
          /\ attendanceRecords' = last.records
          /\ saveError' # NULL
          /\ ~saveSuccess']_vars

\* C7: when a load fails, the matrix, the DateList, the current date and the
\* view are unchanged and the error is set.
C7_FailedLoadKeepsData ==
    [][last'.op = "fetchFail" => (UNCHANGED clientData /\ error' # NULL)]_vars

\* C8: after a successful load the DateList and the matrix are those of the
\* response, the current date is the first date (none when there is no date)
\* and the view is the projection of the matrix at the current date.
C8_LoadSelectsFirstDate ==
    last.op = "fetchOk" =>
        /\ availableDates = last.body.dates
        /\ fullAttendanceData = last.body.attendanceData
        /\ selectedDate = IF Len(availableDates) > 0 THEN availableDates[1] ELSE ""
        /\ IsProjection(attendanceRecords, fullAttendanceData, selectedDate)

\* C9: once a load or a save has started and the network answers, loading
\* (respectively saving) becomes false again, on every path.
C9_LoadAndSaveResolve ==
    /\ loading ~> ~loading
    /\ saving ~> ~saving

C9_Witness == last.op = "fetchFail" /\ ~loading /\ saving

\* C10: the update POST carries the current date and one {name, present}
\* record per entry of the view, in view order, as they are when save is called.
C10_SaveSendsView ==
    last.op = "saveStart" =>
        LET request == saveInFlight[Len(saveInFlight)]
        IN  /\ request.date = selectedDate
            /\ Len(request.attendance) = Len(attendanceRecords)
            /\ \A i \in 1..Len(attendanceRecords) :
                  /\ request.attendance[i].name = attendanceRecords[i].name
                  /\ request.attendance[i].present = attendanceRecords[i].present

C10_Witness ==
    /\ last.op = "saveStart"
    /\ Len(attendanceRecords) = 2
    /\ attendanceRecords[1].present /\ ~attendanceRecords[2].present
    /\ Len(availableDates) = 2 /\ selectedDate = availableDates[2]

\* C11: a toggle repeated with the same index and value leaves the view and
\* the matrix as the first one left them.
C11_ToggleIdempotent ==
    [][\A index \in 1..MaxPeople, checked \in BOOLEAN :
          (/\ last.op = "toggle" /\ last.index = index /\ last.checked = checked
           /\ handleAttendanceChange(index, checked)) =>
              UNCHANGED <<attendanceRecords, fullAttendanceData>>]_vars

C11_Witness ==
    /\ last.op = "toggle" /\ last.again /\ last.checked
    /\ selectedDate # ""
    /\ last.index \in 1..Len(fullAttendanceData)
    /\ fullAttendanceData[last.index].attendance[selectedDate]

\* The request of the last update names a date that is a header cell.
DateInHeader == Len(last.before) > 0 /\ last.body.date \in Range(last.before[1])

\* The first cells of the rows of the sheet the last request found.
RowNames == {last.before[r][1] : r \in 1..Len(last.before)}

\* The records of the last request whose name is the first cell of a row.
Matched == {i \in 1..Len(last.body.attendance) : last.body.attendance[i].name \in RowNames}

\* C12: an update for a date that is no header cell answers non-2xx, makes no
\* write call and leaves every cell of the sheet as it was.
C12_DateNotFoundWritesNothing ==
    (last.op = "update" /\ ~DateInHeader) =>
        /\ last.status # 200
        /\ last.writes = 0
        /\ sheet = last.before

C12_Witness ==
    /\ last.op = "update" /\ last.api = "ok" /\ last.body.date = "dX"
    /\ Len(last.before) = 3 /\ Len(last.before[1]) = 2
    /\ Matched # {}
    /\ last.status = 500

\* C13: when the date is a header cell, the batch write succeeds and at least
\* one record names a row, the update succeeds; the batch has one write per
\* record that names a row and none for the others; the first row of each
\* matched name holds, at the date, the value of the last record of that
\* name, and every other cell is as it was.
C13_UnmatchedNamesSkipped ==
    (last.op = "update" /\ last.api = "ok" /\ DateInHeader /\ Matched # {}) =>
        LET records == last.body.attendance
            col == CHOOSE c \in 1..Len(last.before[1]) :
                       /\ last.before[1][c] = last.body.date
                       /\ \A b \in 1..(c - 1) : last.before[1][b] # last.body.date
            rowOf(n) == CHOOSE r \in 1..Len(last.before) :
                            /\ last.before[r][1] = n
                            /\ \A q \in 1..(r - 1) : last.before[q][1] # n
            lastOf(n) == CHOOSE i \in Matched :
                             /\ records[i].name = n
                             /\ \A j \in Matched : records[j].name = n => j <= i
            written == {rowOf(records[i].name) : i \in Matched}
        IN  /\ last.status = 200
            /\ Len(last.batch) = Cardinality(Matched)
            /\ \A w \in Range(last.batch) : w.row \in written /\ w.col = col
            /\ Len(sheet) = Len(last.before)
            /\ \A i \in Matched :
                  sheet[rowOf(records[i].name)][col] =
                      (IF records[lastOf(records[i].name)].present THEN "TRUE" ELSE "FALSE")
            /\ \A r \in 1..Len(sheet) :
                  /\ Len(sheet[r]) = Len(last.before[r])
                  /\ \A c \in 1..Len(sheet[r]) :
                        (r \notin written \/ c # col) => sheet[r][c] = last.before[r][c]

C13_Witness ==
    /\ last.op = "update" /\ last.api = "ok" /\ DateInHeader
    /\ Len(last.body.attendance) = 2
    /\ last.body.attendance[1].name = "Z"
    /\ Matched = {2}
    /\ last.status = 200
    /\ sheet # last.before

\* The answers of the endpoint when the date is no header cell and when the
\* batch write fails.
DateNotFoundAnswer ==
    LET r == updateAttendance(<<<<"Name", "d1">>, <<"A", "">>>>,
                              [date |-> "dX",
                               attendance |-> <<[name |-> "A", present |-> TRUE]>>], "ok")
    IN  <<r.status, r.error>>

WriteFailedAnswer ==
    LET r == updateAttendance(<<<<"Name", "d1">>, <<"A", "">>>>,
                              [date |-> "d1",
                               attendance |-> <<[name |-> "A", present |-> TRUE]>>],
                              "writeFails")
    IN  <<r.status, r.error>>

\* C14: when no record of an update names a row, the answer of the endpoint
\* differs from its answer for a date that is no header cell and from its
\* answer for a failed write.
C14_NoMatchAnswerDistinct ==
    (last.op = "update" /\ last.api = "ok" /\ DateInHeader /\ Matched = {}) =>
        /\ <<last.status, last.error>> # DateNotFoundAnswer
        /\ <<last.status, last.error>> # WriteFailedAnswer

\* C15: an update makes at most one write call; when that call fails the
\* update answers non-2xx and every cell of the sheet is as it was.
C15_OneBatchAllOrNothing ==
    last.op = "update" =>
        /\ last.writes <= 1
        /\ (last.api = "writeFails" /\ last.writes > 0) =>
               (last.status # 200 /\ sheet = last.before)

C15_Witness ==
    /\ last.op = "update" /\ last.api = "writeFails"
    /\ Len(last.batch) = 2
    /\ last.batch[1].value # last.batch[2].value
    /\ last.before[last.batch[2].row][last.batch[2].col] # last.batch[2].value
    /\ last.status = 500

\* A string equal to "true" when case is ignored, among the cells of the sheets.
IsTrueIgnoringCase(value) == value \in {"TRUE", "true", "True", "tRuE"}

\* C16: the data endpoint reports a cell as present exactly when it is equal
\* to "true", case ignored.
C16_TrueIgnoringCase ==
    (/\ last.op = "get" /\ last.status = 200 /\ Len(last.before) > 0
     /\ \A a, b \in 2..Len(last.before[1]) :
           last.before[1][a] = last.before[1][b] => a = b) =>
        \A r \in 2..Len(last.before) : \A c \in 2..Len(last.before[1]) :
            last.body.attendanceData[r - 1].attendance[last.before[1][c]] =
                IsTrueIgnoringCase(last.before[r][c])

\* C17: when the read of the sheet returns no row, the data endpoint answers
\* non-2xx.
C17_EmptySheetFails ==
    (last.op = "get" /\ Len(last.before) = 0) => last.status # 200

\* C18: when the read of the collection fails and a cache was fetched before,
\* expired or not, getAuthorizedEmails returns that cache.
C18_FailedReadServesStaleCache ==
    (last.op = "list" /\ last.failed /\ last.cacheBefore # <<>>) =>
        last.result = last.cacheBefore

\* C19: when the read of the collection fails and there is no cache, the
\* result is not the one of an empty whitelist, the check does not report the
\* user as unauthorized and the client does not sign the user out.
C19_FailedReadIsAnError ==
    /\ (last.op = "list" /\ last.failed /\ last.cacheBefore = <<>>) =>
           last.result # <<>>
    /\ (last.op = "check" /\ last.failed /\ last.cacheBefore = <<>>) =>
           (last.outcome # "unauthorized" /\ ~last.signedOut)

\* The emails of the documents of the collection, in lower case.
StoredEmails == {toLowerCase(store[i].email) : i \in DocIds}

\* C20: the collection changes only when an add or a remove of the session
\* succeeds; every list and every check that returns from then on, without a
\* failed read, reports the emails the collection holds, whenever it started.
C20_ReadsReflectMutations ==
    /\ (last.op = "list" /\ ~last.failed) => Range(last.result) = StoredEmails
    /\ (last.op = "check" /\ ~last.failed) =>
           (last.outcome = "authorized" <=> toLowerCase(last.email) \in StoredEmails)

\* C21: a remove of the email of the acting user, in any letter case, returns
\* false and deletes no document.
C21_NoSelfRemoval ==
    [][(last'.op = "remove" /\ toLowerCase(last'.email) = toLowerCase(Admin)) =>
          (~last'.result /\ store' = store)]_vars

\* The emails a user can sign in with, against the whitelist of auth-config.ts.
SourceEmails == {"john.davis.92790@gmail.com", "John.Davis.92790@gmail.com", "b@x"}

YoungCache == lastFetchTime > 0 /\ now - lastFetchTime < CACHE_DURATION

\* C23: getAuthorizedEmails sends no read of the collection while a cache
\* younger than CACHE_DURATION exists, whatever the cached set contains, the
\* empty set included.
C23_YoungCacheIsNotReread == last.op = "getStart" => ~YoungCache

\* C24: a read of the collection that fails changes neither
\* cachedAuthorizedEmails nor lastFetchTime.
C24_FailedReadKeepsCache ==
    [][(last'.op \in {"list", "check"} /\ last'.failed) =>
          UNCHANGED <<cachedAuthorizedEmails, lastFetchTime>>]_vars

\* A read failed while a cache stamped by an earlier read was held.
C24_Witness ==
    /\ last.op = "list"
    /\ last.failed
    /\ cachedAuthorizedEmails # <<>>
    /\ lastFetchTime > 0

\* C25: a call of addAuthorizedEmail(email, Admin) that Firestore answered
\* returns false and leaves the collection unchanged when the lower-case
\* email is stored; otherwise it stores exactly one new record of the
\* lower-case email and of addedBy, invalidates the cache and returns true.
C25_AddContract ==
    [][(last'.op = "add" /\ ~last'.rejected) =>
          IF toLowerCase(last'.email) \in StoredEmails
            THEN ~last'.result /\ store' = store
            ELSE /\ last'.result
                 /\ store' = Append(store, Doc(toLowerCase(last'.email), Admin))
                 /\ cachedAuthorizedEmails' = <<>>
                 /\ lastFetchTime' = 0]_vars

\* C26: a call of removeAuthorizedEmail(email) that Firestore answered
\* returns false and leaves the collection unchanged when no record has the
\* lower-case email; otherwise it returns true, the lower-case email is no
\* longer stored and the cache is invalidated, so that a check that follows
\* reads a collection without the email.
C26_RemoveContract ==
    [][(last'.op = "remove" /\ ~last'.rejected) =>
          IF toLowerCase(last'.email) \notin StoredEmails
            THEN ~last'.result /\ store' = store
            ELSE /\ last'.result
                 /\ toLowerCase(last'.email) \notin {toLowerCase(store'[i].email) :
                                                       i \in {j \in 1..Len(store') : store'[j] # Deleted}}
                 /\ cachedAuthorizedEmails' = <<>>
                 /\ lastFetchTime' = 0]_vars

----------------------------------------------------------------------------
(* src/unnamed/part_000: the client behind the sign-in whose whitelist is
   AUTHORIZED_EMAILS of auth-config.ts *)

\* What the sign-in and sign-out steps leave alone.
P0_signFrame ==
    <<saving, authRequired, mounted, crashed, saveInFlight, sheet, store,
      cachedAuthorizedEmails, lastFetchTime, now, callsStarted>>

\* useEffect(() => { fetchAttendanceData(); }, []) of the authenticated client
P0_Mount ==
    /\ Mount
    /\ UNCHANGED <<sheet, whitelist>>

\* The onAuthStateChanged callback for the user who signs in, up to its await:
\* of fetchAttendanceData for a user of the whitelist, of signOut for another.
\* The listener is registered by an effect of the mount.
P0_AuthStateChanged(email) ==
    /\ mounted
    /\ user = NULL
    /\ signIns < MaxSignIns
    /\ signIns' = signIns + 1
    /\ user' = email
    /\ isAuthorized' = isUserAuthorized(email, AUTHORIZED_EMAILS)
    /\ IF isUserAuthorized(email, AUTHORIZED_EMAILS)
         THEN /\ fetchInFlight < MaxInFlight
              /\ loading' = TRUE
              /\ error' = NULL
              /\ saveSuccess' = FALSE
              /\ saveError' = NULL
              /\ fetchInFlight' = fetchInFlight + 1
              /\ last' = [op |-> "fetchStart"]
              /\ UNCHANGED calls
         ELSE /\ Len(calls) < MaxInFlight
              /\ calls' = Append(calls, [fn |-> "signOut", clear |-> FALSE])
              /\ last' = [op |-> "unauthorized", email |-> email]
              /\ UNCHANGED <<loading, error, saveSuccess, saveError, fetchInFlight>>
    /\ UNCHANGED <<clientData, P0_signFrame>>

\* handleSignOut up to its await of signOut(auth).
P0_handleSignOut ==
    /\ user # NULL
    /\ Len(calls) < MaxInFlight
    /\ calls' = Append(calls, [fn |-> "signOut", clear |-> TRUE])
    /\ last' = [op |-> "signOut"]
    /\ UNCHANGED <<clientData, loading, error, saveSuccess, saveError, fetchInFlight,
                   authState, P0_signFrame>>

\* signOut(auth) resolved: the onAuthStateChanged callback runs with no user,
\* then handleSignOut clears the attendance data.
P0_SignOutResolved(k) ==
    /\ k \in 1..Len(calls)
    /\ calls[k].fn = "signOut"
    /\ calls' = RemoveAt(calls, k)
    /\ user' = NULL
    /\ IF calls[k].clear
         THEN /\ attendanceRecords' = <<>>
              /\ fullAttendanceData' = <<>>
              /\ availableDates' = <<>>
              /\ selectedDate' = ""
         ELSE UNCHANGED clientData
    /\ last' = [op |-> "signedOut"]
    /\ UNCHANGED <<isAuthorized, signIns, loading, error, saveSuccess, saveError,
                   fetchInFlight, P0_signFrame>>

\* signOut(auth) rejected: nothing but the authError message is set.
P0_SignOutRejected(k) ==
    /\ k \in 1..Len(calls)
    /\ calls[k].fn = "signOut"
    /\ calls' = RemoveAt(calls, k)
    /\ last' = [op |-> "signOutFailed"]
    /\ UNCHANGED <<clientData, loading, error, saveSuccess, saveError, fetchInFlight,
                   authState, P0_signFrame>>

NextP0 ==
    \/ P0_Mount
    \/ \E email \in SourceEmails : P0_AuthStateChanged(email)
    \/ P0_handleSignOut
    \/ \E k \in 1..MaxInFlight : P0_SignOutResolved(k)
    \/ \E k \in 1..MaxInFlight : P0_SignOutRejected(k)
    \/ \E data \in Bodies : FetchOk(data) /\ UNCHANGED <<sheet, whitelist>>
    \/ \E r \in FetchFailures : FetchFail(r) /\ UNCHANGED <<sheet, whitelist>>

SpecP0 == Init /\ [][NextP0]_vars

\* C27: in the authenticated clients fetchAttendanceData is started only for
\* a signed-in user whose email isUserAuthorized has accepted; no fetch starts
\* with no user or with a user who is not authorized.
C27_FetchOnlyWhenAuthorized ==
    [][fetchInFlight' > fetchInFlight =>
          /\ user' # NULL
          /\ isAuthorized'
          /\ isUserAuthorized(user', AUTHORIZED_EMAILS)]_vars

\* C28: no fetchAttendanceData starts while a save is in flight: whenever
\* saving is set the refresh affordance is disabled.
C28_NoRefreshWhileSaving ==
    [][saving => (~RefreshEnabled /\ fetchInFlight' <= fetchInFlight)]_vars

\* C29: in every state of the client, the attendance mapping of every person
\* of the matrix has its keys among the dates of the DateList held.
C29_KeysWithinDateList ==
    \A i \in 1..Len(fullAttendanceData) :
        DOMAIN fullAttendanceData[i].attendance \subseteq Range(availableDates)

\* The message of the 403 branch of fetchAttendanceData.
PermissionsMessage == "Access to this function requires authentication"

\* C30: fetchAttendanceData sets authRequired and the permissions message
\* exactly when the data endpoint answers 403: every other failure sets
\* another error message and leaves authRequired as it was, and so does a
\* load that succeeds.
C30_Only403SetsAuthRequired ==
    [][/\ last'.op = "fetchFail" =>
            IF last'.status = 403
              THEN authRequired' /\ error' = PermissionsMessage
              ELSE /\ authRequired' = authRequired
                   /\ error' \notin {NULL, PermissionsMessage}
       /\ last'.op = "fetchOk" => authRequired' = authRequired]_vars

\* A 403 has been answered: the flag and the permissions message are set.
C30_Witness ==
    /\ last.op = "fetchFail"
    /\ last.status = 403
    /\ authRequired
    /\ error = PermissionsMessage

----------------------------------------------------------------------------
(* src/unnamed/part_003: the validation of updateAttendance, on requests that
   lack a field *)

\* request.body without a body, without its date, or without its attendance.
IncompleteBodies ==
    {<<>>, [date |-> "d1"], [date |-> ""]}
        \cup {[attendance |-> rs] : rs \in SeqsUpTo(RequestRecords, 1)}

\* The requests of the validation: the incomplete ones, and complete ones with
\* or without a date.
ValidationBodies ==
    IncompleteBodies
        \cup {[date |-> d, attendance |-> rs] :
                 d \in {"d1", ""}, rs \in SeqsUpTo(RequestRecords, 1)}

InitValidation ==
    /\ attendanceRecords = <<>>
    /\ fullAttendanceData = <<>>
    /\ availableDates = <<>>
    /\ selectedDate = ""
    /\ loading = TRUE
    /\ saving = FALSE
    /\ error = NULL
    /\ saveError = NULL
    /\ saveSuccess = FALSE
    /\ authRequired = FALSE
    /\ mounted = FALSE
    /\ crashed = FALSE
    /\ user = NULL
    /\ isAuthorized = FALSE
    /\ signIns = 0
    /\ fetchInFlight = 0
    /\ saveInFlight \in {<<body>> : body \in ValidationBodies}
    /\ sheet \in AdapterSheets
    /\ WhitelistIdle
    /\ last = [op |-> "init"]

NextValidation == \E api \in ApiOutcomes : UpdateCalled(api)

SpecValidation == InitValidation /\ [][NextValidation]_vars

\* C31: a request to updateAttendance whose body, date or attendance is
\* missing is answered 400, and no read and no write of the sheet is made.
C31_IncompleteRequestRejected ==
    (last.op = "update" /\ last.body \in IncompleteBodies) =>
        /\ last.status = 400
        /\ last.reads = 0
        /\ last.writes = 0
        /\ sheet = last.before

\* A request without its attendance, on a sheet that has its date and a
\* working Sheets API, has been rejected.
C31_Witness ==
    /\ last.op = "update"
    /\ last.body = [date |-> "d1"]
    /\ last.api = "ok"
    /\ last.status = 400
    /\ Len(last.before) > 1
    /\ dateColumn(last.before[1], "d1") # 0

\* C32: in every state of the client the view and the matrix are aligned:
\* they have the same length and the same name at every index.
C32_ViewAlignedWithMatrix ==
    /\ Len(attendanceRecords) = Len(fullAttendanceData)
    /\ \A i \in 1..Len(attendanceRecords) :
           attendanceRecords[i].name = fullAttendanceData[i].name

\* C33: in every state of the client the current date is none or a date of
\* the DateList held.
C33_SelectedDateInDateList ==
    selectedDate = "" \/ selectedDate \in Range(availableDates)

\* C34: while saveSuccess is set and no save is in flight the view is the
\* payload of the last successful save: the save that succeeds leaves the
\* view equal to what it sent, and no step changes the view while success
\* stays displayed.
C34_SuccessMeansSaved ==
    [][/\ (last'.op = "saveOk" /\ Len(saveInFlight) = 1) =>
            saveInFlight[1] = [date |-> selectedDate', attendance |-> attendanceRecords']
       /\ (saveSuccess /\ saveSuccess' /\ saveInFlight = <<>> /\ saveInFlight' = <<>>) =>
            UNCHANGED <<attendanceRecords, selectedDate>>]_vars

----------------------------------------------------------------------------
(* src/unnamed/part_003: updateAttendance on requests that name the header *)

\* Requests whose date or whose names are cells of the header row or of the
\* name column.
HeaderBodies ==
    {[date |-> d, attendance |-> rs] :
        d \in {"d1", "Name", "A"},
        rs \in SeqsUpTo({[name |-> "A", present |-> TRUE],
                         [name |-> "Name", present |-> FALSE],
                         [name |-> "d1", present |-> TRUE]}, MaxPeople)}

InitCells ==
    /\ attendanceRecords = <<>>
    /\ fullAttendanceData = <<>>
    /\ availableDates = <<>>
    /\ selectedDate = ""
    /\ loading = TRUE
    /\ saving = FALSE
    /\ error = NULL
    /\ saveError = NULL
    /\ saveSuccess = FALSE
    /\ authRequired = FALSE
    /\ mounted = FALSE
    /\ crashed = FALSE
    /\ user = NULL
    /\ isAuthorized = FALSE
    /\ signIns = 0
    /\ fetchInFlight = 0
    /\ saveInFlight \in {<<body>> : body \in HeaderBodies}
    /\ sheet \in AdapterSheets
    /\ WhitelistIdle
    /\ last = [op |-> "init"]

NextCells == \E api \in ApiOutcomes : UpdateCalled(api)

SpecCells == InitCells /\ [][NextCells]_vars

\* C35: no write of updateAttendanceInSheet targets the header row or the
\* name column, and both are after the call what they were before it.
C35_WritesOnlyDataCells ==
    last.op = "update" =>
        /\ \A i \in 1..Len(last.batch) : last.batch[i].row > 1 /\ last.batch[i].col > 1
        /\ Len(sheet) = Len(last.before)
        /\ Len(sheet) > 0 => sheet[1] = last.before[1]
        /\ \A r \in 1..Len(sheet) : sheet[r][1] = last.before[r][1]

\* C36: after an update that succeeded, a read of the sheet gives every
\* person whose name a record of the request carries that record's value at
\* the date of the request, and gives every other person and every other date
\* what a read gave before the update.
C36_WriteThenRead ==
    (last.op = "update" /\ last.status = 200) =>
        LET records == last.body.attendance
            date == last.body.date
            before == getAttendanceDataFromSheet(last.before).attendanceData
            after == getAttendanceDataFromSheet(sheet).attendanceData
        IN  /\ Len(after) = Len(before)
            /\ \A p \in 1..Len(after) :
                  /\ after[p].name = before[p].name
                  /\ \A i \in 1..Len(records) :
                        records[i].name = after[p].name =>
                            after[p].attendance[date] = records[i].present
                  /\ \A d \in DOMAIN after[p].attendance :
                        (d # date \/ \A i \in 1..Len(records) :
                                        records[i].name # after[p].name) =>
                            after[p].attendance[d] = before[p].attendance[d]

\* C37: the collection never holds two documents with the same lower-case
\* email.
C37_NoDuplicateEmails ==
    \A i, j \in DocIds :
        toLowerCase(store[i].email) = toLowerCase(store[j].email) => i = j

\* C38: the attendance content is reachable only for a user whom the check of
\* that sign-in has accepted: a check that accepts sets isAuthorized for the
\* user it was made for, and a user who becomes the current user has
\* isAuthorized set only by a check of their own email.
C38_AuthorizedMeansChecked ==
    [][/\ (last'.op = "check" /\ last'.outcome = "authorized" /\ user' # NULL) =>
            toLowerCase(last'.email) = toLowerCase(user')
       /\ (user' # user /\ user' # NULL /\ isAuthorized') =>
            /\ last'.op = "check"
            /\ last'.outcome = "authorized"
            /\ toLowerCase(last'.email) = toLowerCase(user')]_vars

\* C39: at most one data fetch is in flight, and once the client is mounted
\* loading is set exactly while a fetch is in flight: no fetch is started
\* during a load.
C39_LoadingIffFetchInFlight ==
    /\ fetchInFlight <= 1
    /\ mounted => (loading <=> fetchInFlight = 1)

\* A refresh has been started after an earlier load was answered.
C39_Witness ==
    /\ last.op = "fetchStart"
    /\ availableDates # <<>>
    /\ loading
    /\ fetchInFlight = 1

\* C40: saveSuccess and saveError are never both set, and neither is set
\* while saving is set or while a load is in flight.
C40_SaveBannersExclusive ==
    /\ ~(saveSuccess /\ saveError # NULL)
    /\ (saving \/ fetchInFlight > 0) => (~saveSuccess /\ saveError = NULL)

====
